---- MODULE Spec2Model ----
(***************************************************************************)
(* Tenant lifecycle of the EKS SaaS platform: the registration gate, the   *)
(* TenantOnboardingProject and TenantDeletionProject CodeBuild jobs, the   *)
(* per-service <Service>TenantDeploy jobs and the ingress fragments they   *)
(* apply into tenant namespaces.                                           *)
(*                                                                         *)
(* Strings that are computed on (company names, tenant ids, e-mails) are   *)
(* sequences of one-character strings; <<>> is the empty string.           *)
(*                                                                         *)
(* CodeBuild runs the commands of a phase in order and stops the phase at  *)
(* the first command that fails.  A failed INSTALL or PRE_BUILD phase ends *)
(* the build; a failed BUILD phase is still followed by POST_BUILD.        *)
(***************************************************************************)
EXTENDS Integers, Sequences, FiniteSets, TLC

\* ------------------------------------------------------------------ bounds
\* Number of builds of TenantOnboardingProject in a run.
MaxOnboardings == 2

\* Number of builds of TenantDeletionProject in a run.
MaxDeletions == 1

\* Number of builds of a service's own project (commits) in a run.
MaxCommits == 1

\* Length of the longest company name typed into the registration form.
MaxNameLen == 3

\* ------------------------------------------------------- inputs of a run
\* Company names typed into the registration form.
CompanyNames == { <<"A">>, <<"a", "!">>, <<"a", "b">>, <<>> }

\* Company names that are spelled like something shared: the route /users
\* of a shared service, and the namespace default.
ReservedNames ==
    { <<"U", "s", "e", "r", "s">>, <<"D", "e", "f", "a", "u", "l", "t">> }

\* A well-formed and a malformed admin e-mail address.
GoodEmail == <<"a", "@", "x">>
BadEmail == <<"a">>

\* The registrations a run draws from: every company name with a valid
\* e-mail and plan, and one registration per way of being invalid.
OnboardInputs ==
    { <<c, GoodEmail, "pooled">> : c \in CompanyNames }
        \cup { << <<"A">>, BadEmail, "pooled" >>, << <<"A">>, GoodEmail, "gold" >> }

\* ---------------------------------------------------------------- slug
UpperToLower ==
    [c \in {"A", "B", "D", "U"} |->
        IF c = "A" THEN "a" ELSE IF c = "B" THEN "b" ELSE IF c = "D" THEN "d" ELSE "u"]

\* \w of the regular expression: letters, digits and the underscore.
IsWordChar(c) ==
    c \in {"a", "b", "d", "e", "f", "l", "r", "s", "t", "u",
           "A", "B", "D", "U", "1", "_"}

toLowerCase(c) == IF c \in DOMAIN UpperToLower THEN UpperToLower[c] ELSE c

\* Mutant: the regular expression without the g flag, which replaces the
\* first run of non-word characters only.
StripNonWordOnce(s) ==
    LET first == CHOOSE i \in 1..(Len(s) + 1) :
                    /\ \A j \in 1..(i - 1) : IsWordChar(s[j])
                    /\ (i = Len(s) + 1 \/ ~IsWordChar(s[i]))
        after == CHOOSE k \in first..(Len(s) + 1) :
                    /\ \A j \in first..(k - 1) : ~IsWordChar(s[j])
                    /\ (k = Len(s) + 1 \/ IsWordChar(s[k]))
    IN  SubSeq(s, 1, first - 1) \o SubSeq(s, after, Len(s))

RECURSIVE StripNonWord(_)
StripNonWord(s) ==
    IF s = <<>> THEN <<>>
    ELSE IF IsWordChar(Head(s)) THEN <<Head(s)>> \o StripNonWord(Tail(s))
         ELSE StripNonWord(Tail(s))

\* companyName.replace(/[\W\s]+/g, '').toLowerCase()
slug(companyName) ==
    LET stripped == StripNonWord(companyName)
    IN  [i \in 1..Len(stripped) |-> toLowerCase(stripped[i])]

\* ------------------------------------------------------- fixed topology
\* applicationServiceBuildProjectNames, in the order of the post_build list.
ApplicationServices == << "ProductService", "OrderService" >>

Services == { ApplicationServices[i] : i \in 1..Len(ApplicationServices) }

ServiceUrlPrefix(svc) == IF svc = "ProductService" THEN "products" ELSE "orders"

BackendService(svc) ==
    IF svc = "ProductService" THEN "product-service" ELSE "order-service"

\* The namespace that holds the master ingress and the shared services.
DefaultNamespace == <<"d", "e", "f", "a", "u", "l", "t">>

ApiHost == "nlb"

\* Mutant: the path patch leaves out the tenant id.
TenantPathNoTenant(tenantId, svc) == << <<>>, <<ServiceUrlPrefix(svc)>> >>

\* A path is a sequence of segments: /<tenant id>/<service URL prefix>.
TenantPath(tenantId, svc) == << tenantId, <<ServiceUrlPrefix(svc)>> >>

\* ------------------------------------------------------------- values
\* <<>> is the default TENANT_ID of every project.
TenantIds == { slug(n) : n \in CompanyNames \cup ReservedNames } \cup { <<>> }

Namespaces == (TenantIds \ {<<>>}) \cup {DefaultNamespace}

NoRecord == [status |-> "None", companyName |-> <<>>, adminEmail |-> <<>>,
             plan |-> ""]

NoStack == [exists |-> FALSE, CompanyName |-> <<>>, TenantAdminEmail |-> <<>>]

NoOverlay == [role |-> "absent", host |-> "", path |-> <<>>, backend |-> "",
              port |-> 0, serviceAccount |-> <<>>, image |-> <<>>]

\* The master ingress created with the cluster: namespace default, the API
\* host as its only rule, no path.
MasterIngressName == "default-primary-mergable-ingress"

MasterIngress == [role |-> "master", host |-> ApiHost, path |-> <<>>,
                  backend |-> "", port |-> 0, serviceAccount |-> <<>>,
                  image |-> <<>>]

\* The objects of a namespace after the cluster was created: the master
\* ingress in default, and no service overlay anywhere.
ClusterObjects(ns) ==
    IF ns = DefaultNamespace
    THEN [o \in Services \cup {MasterIngressName} |->
            IF o = MasterIngressName THEN MasterIngress ELSE NoOverlay]
    ELSE [svc \in Services |-> NoOverlay]

\* Commit ids a service's repository receives; IMAGE_TAG of its build.
ImageTags == {"c1"}

\* The commit each service's repository is created with.  Its build is
\* started when the repository is created and pushes the image as latest
\* and under the commit id.
InitialCommit == "c0"

InitialImages == { <<svc, tag>> : svc \in Services, tag \in {"latest", InitialCommit} }

NoReply == [op |-> "", tenantId |-> <<>>, companyName |-> <<>>, result |-> ""]

\* A tenant-deploy build is identified by the onboarding build that started
\* it and the position of the start-build command in post_build.
DeployKeys == (1..MaxOnboardings) \X (1..Len(ApplicationServices))

NotStarted == [service |-> "", TENANT_ID |-> <<>>, overridden |-> {},
               status |-> "NOT_STARTED"]

VARIABLES
    registry,     \* the Tenant table, one item per TENANT_ID
    stacks,       \* the CloudFormation stacks TenantStack-<TENANT_ID>
    applied,      \* per namespace and service, the overlay kubectl applied
    onboardings,  \* builds of TenantOnboardingProject, in start order
    deploys,      \* builds of the <Service>TenantDeploy projects
    deletions,    \* builds of TenantDeletionProject
    reply,        \* the answer given by the step just taken, if it was a request
    commits,      \* builds of the services' own projects, in start order
    images        \* the image references the services' ECR repositories hold

vars == << registry, stacks, applied, onboardings, deploys, deletions, reply,
           commits, images >>

Init ==
    /\ registry = [t \in TenantIds |-> NoRecord]
    /\ stacks = [t \in TenantIds |-> NoStack]
    /\ applied = [ns \in Namespaces |-> ClusterObjects(ns)]
    /\ onboardings = <<>>
    /\ deploys = [key \in DeployKeys |-> NotStarted]
    /\ deletions = <<>>
    /\ reply = NoReply
    /\ commits = <<>>
    /\ images = InitialImages

\* ------------------------------------------------- CodeBuild semantics
\* The phase that follows `phase`, given whether its commands succeeded.
\* pre_build has no commands in any of the projects, so INSTALL leads to BUILD.
NextPhase(phase, ok) ==
    CASE phase = "INSTALL"    -> IF ok THEN "BUILD" ELSE "COMPLETED"
      [] phase = "BUILD"      -> "POST_BUILD"
      [] phase = "POST_BUILD" -> "COMPLETED"
      [] OTHER                -> "COMPLETED"

\* The build status CodeBuild reports for a finished build.
BuildStatus(b) == IF b.failedPhases = {} THEN "SUCCEEDED" ELSE "FAILED"

\* A build of TenantOnboardingProject with the given values of its
\* environment variables; the project's own defaults are all "".
OnboardingBuild(via, tenantId, companyName, adminEmail, plan) ==
    [via |-> via, TENANT_ID |-> tenantId, COMPANY_NAME |-> companyName,
     ADMIN_EMAIL |-> adminEmail, PLAN |-> plan,
     phase |-> "INSTALL", cmd |-> 1, failedPhases |-> {}]

\* Mutant: every start-build names the first application service.
PostBuildCommandsFirstOnly(b) ==
    [k \in 1..Len(ApplicationServices) |->
        [service |-> ApplicationServices[1],
         overrides |-> [TENANT_ID |-> b.TENANT_ID]]]

\* The post_build commands of an onboarding build: one start-build per
\* application service, each overriding TENANT_ID only.
PostBuildCommands(b) ==
    [k \in 1..Len(ApplicationServices) |->
        [service |-> ApplicationServices[k],
         overrides |-> [TENANT_ID |-> b.TENANT_ID]]]

\* aws codebuild start-build --project-name <svc>TenantDeploy
\*     --environment-variables-override ...
\* TENANT_ID of the project defaults to "".
StartTenantDeploy(command) ==
    [service |-> command.service,
     TENANT_ID |-> IF "TENANT_ID" \in DOMAIN command.overrides
                   THEN command.overrides.TENANT_ID ELSE <<>>,
     overridden |-> DOMAIN command.overrides,
     status |-> "IN_PROGRESS"]

\* --------------------------------------------------------- registration
WellFormedEmail(e) == \E i \in 2..(Len(e) - 1) : e[i] = "@"

AllowedPlans == {"pooled", "silo"}

ValidOnboard(companyName, adminEmail, plan) ==
    /\ companyName # <<>>
    /\ WellFormedEmail(adminEmail)
    /\ plan \in AllowedPlans

\* Mutant: the gate never looks at the registry.
GateOpenAlways(reg, tenantId) == TRUE

\* Mutant: the gate only blocks while the tenant is being provisioned.
GateOpenUnlessProvisioning(reg, tenantId) ==
    reg[tenantId].status # "Provisioning"

\* Mutant: the gate only blocks while a build of the tenant is running.
GateOpenWhenSettled(reg, tenantId) ==
    reg[tenantId].status \notin {"Provisioning", "Deprovisioning"}

\* The registry gate: a record that exists and is not Failed blocks.
GateOpen(reg, tenantId) == reg[tenantId].status \in {"None", "Failed"}

Answer(op, tenantId, companyName, result) ==
    [op |-> op, tenantId |-> tenantId, companyName |-> companyName,
     result |-> result]

\* Onboard with input that fails validation.
OnboardInvalid(companyName, adminEmail, plan) ==
    /\ ~ValidOnboard(companyName, adminEmail, plan)
    /\ reply' = Answer("Onboard", <<>>, <<>>, "ValidationError")
    /\ UNCHANGED << registry, stacks, applied, onboardings, deploys, deletions,
                    commits, images >>

\* Onboard for a tenant id whose record exists and is not Failed.
OnboardConflict(companyName, adminEmail, plan) ==
    /\ ValidOnboard(companyName, adminEmail, plan)
    /\ ~GateOpen(registry, slug(companyName))
    /\ reply' = Answer("Onboard", slug(companyName), companyName,
                       "ResourceConflict")
    /\ UNCHANGED << registry, stacks, applied, onboardings, deploys, deletions,
                    commits, images >>

\* Onboard that passes the gate: inserts the Provisioning record and starts
\* the onboarding build with the request's values.
OnboardAccept(companyName, adminEmail, plan) ==
    LET tenantId == slug(companyName) IN
    /\ Len(onboardings) < MaxOnboardings
    /\ ValidOnboard(companyName, adminEmail, plan)
    /\ GateOpen(registry, tenantId)
    /\ registry' = [registry EXCEPT ![tenantId] =
                        [status |-> "Provisioning", companyName |-> companyName,
                         adminEmail |-> adminEmail, plan |-> plan]]
    /\ onboardings' = Append(onboardings,
            OnboardingBuild("request", tenantId, companyName, adminEmail, plan))
    /\ reply' = Answer("Onboard", tenantId, companyName, "Accepted")
    /\ UNCHANGED << stacks, applied, deploys, deletions, commits, images >>

\* StartBuild of TenantOnboardingProject without overrides: every
\* environment variable keeps its default "".
StartOnboardingDefault ==
    /\ Len(onboardings) < MaxOnboardings
    /\ onboardings' = Append(onboardings,
            OnboardingBuild("direct", <<>>, <<>>, <<>>, ""))
    /\ reply' = Answer("StartBuild", <<>>, <<>>, "Started")
    /\ UNCHANGED << registry, stacks, applied, deploys, deletions,
                    commits, images >>

\* ------------------------------------------------ the onboarding build
\* The status the registry gets when an onboarding build ends: Active when
\* every stage of the build succeeded, Failed when one failed.
OnboardingOutcome(b) == IF b.failedPhases = {} THEN "Active" ELSE "Failed"

\* Mutant: only a build that succeeded records its outcome.
RecordOutcomeOnlyOnSuccess(reg, b) ==
    IF b.phase = "COMPLETED" /\ b.via = "request" /\ b.failedPhases = {}
    THEN [reg EXCEPT ![b.TENANT_ID].status = OnboardingOutcome(b)]
    ELSE reg

\* The registry after build b took a step: a build that came through the
\* gate records its outcome when it completes.
RecordOutcome(reg, b) ==
    IF b.phase = "COMPLETED" /\ b.via = "request"
    THEN [reg EXCEPT ![b.TENANT_ID].status = OnboardingOutcome(b)]
    ELSE reg

\* Build b after the commands of its current phase ran.
AfterPhase(b, ok) ==
    [b EXCEPT !.phase = NextPhase(b.phase, ok),
              !.failedPhases = IF ok THEN @ ELSE @ \cup {b.phase}]

\* cdk deploy TenantStack-$TENANT_ID --parameters CompanyName="$COMPANY_NAME"
\*     --parameters TenantAdminEmail="$ADMIN_EMAIL" ...
CdkDeploy(stk, b) ==
    [stk EXCEPT ![b.TENANT_ID] =
        [exists |-> TRUE, CompanyName |-> b.COMPANY_NAME,
         TenantAdminEmail |-> b.ADMIN_EMAIL]]

\* install phase: npm i.
OnbInstall(i, ok) ==
    LET b == onboardings[i]
        nb == AfterPhase(b, ok) IN
    /\ b.phase = "INSTALL"
    /\ onboardings' = [onboardings EXCEPT ![i] = nb]
    /\ registry' = RecordOutcome(registry, nb)
    /\ reply' = NoReply
    /\ UNCHANGED << stacks, applied, deploys, deletions, commits, images >>

\* build phase: cdk bootstrap, then cdk deploy of the tenant stack.  A
\* failed deploy is rolled back by CloudFormation and leaves the stack as
\* it was.  The stack holds the namespace named $TENANT_ID, which cannot be
\* created with an empty name.
OnbBuild(i, ok) ==
    LET b == onboardings[i]
        nb == AfterPhase(b, ok) IN
    /\ b.phase = "BUILD"
    /\ ok => b.TENANT_ID # <<>>
    /\ onboardings' = [onboardings EXCEPT ![i] = nb]
    /\ stacks' = IF ok THEN CdkDeploy(stacks, b) ELSE stacks
    /\ registry' = RecordOutcome(registry, nb)
    /\ reply' = NoReply
    /\ UNCHANGED << applied, deploys, deletions, commits, images >>

\* post_build phase, one command per step: start the tenant-deploy build of
\* the next application service.  start-build returns as soon as the build
\* is queued.  A failing command ends the phase.
OnbPostBuild(i, ok) ==
    LET b == onboardings[i]
        commands == PostBuildCommands(b)
        last == b.cmd = Len(commands)
        nb == IF ok /\ ~last THEN [b EXCEPT !.cmd = @ + 1]
              ELSE AfterPhase(b, ok) IN
    /\ b.phase = "POST_BUILD"
    /\ b.cmd \in DOMAIN commands
    /\ onboardings' = [onboardings EXCEPT ![i] = nb]
    /\ deploys' = IF ok
                  THEN [deploys EXCEPT ![<<i, b.cmd>>] =
                            StartTenantDeploy(commands[b.cmd])]
                  ELSE deploys
    /\ registry' = RecordOutcome(registry, nb)
    /\ reply' = NoReply
    /\ UNCHANGED << stacks, applied, deletions, commits, images >>

\* ---------------------------------------------- the tenant-deploy build
\* -n $TENANT_ID is written without quotes: with TENANT_ID empty the flag
\* -n is the last word of the command and kubectl ends with a usage error.
NamespaceFlagHasValue(tenantId) == tenantId # <<>>

\* Mutant: kubectl apply finds (or creates) every namespace it is given.
NamespaceExistsAlways(ns) == TRUE

\* Tenant namespaces are created by, and removed with, the tenant stack.
NamespaceExists(ns) ==
    ns = DefaultNamespace \/ (ns \in TenantIds /\ stacks[ns].exists)

\* What kustomize renders for one service from TENANT_ID: the minion
\* ingress with the patched host and path, and the deployment with the
\* patched service account and the image reference <repo>:latest.
TenantOverlay(svc, tenantId) ==
    [role |-> "minion", host |-> ApiHost, path |-> TenantPath(tenantId, svc),
     backend |-> BackendService(svc), port |-> 80,
     serviceAccount |-> tenantId \o <<"-service-account">>,
     image |-> <<svc, "latest">>]

\* The path of a fragment as the string the ingress holds.
PathString(path) == <<"/">> \o path[1] \o <<"/">> \o path[2]

\* pathType: Prefix, compared character by character.
IsPrefix(p, q) == Len(p) <= Len(q) /\ SubSeq(q, 1, Len(p)) = p

\* Mutant: applying over an existing ingress adds the path as a further
\* rule instead of replacing the object.
KubectlApplyAppendsRule(app, svc, tenantId) ==
    LET ns == tenantId
        old == app[ns][svc]
        new == TenantOverlay(svc, tenantId) IN
    [app EXCEPT ![ns][svc] =
        IF old.role = "minion" THEN [new EXCEPT !.path = old.path \o new.path]
        ELSE new]

\* Mutant: the apply also writes the path as a rule of the master ingress.
KubectlApplyEditsMaster(app, svc, tenantId) ==
    [app EXCEPT ![tenantId][svc] = TenantOverlay(svc, tenantId),
                ![DefaultNamespace][MasterIngressName].path = TenantPath(tenantId, svc)]

\* Mutant: the apply leaves out -n $TENANT_ID.
KubectlApplyNoNamespace(app, svc, tenantId) ==
    [app EXCEPT ![DefaultNamespace][svc] = TenantOverlay(svc, tenantId)]

\* kubectl apply -k kubernetes/ -n $TENANT_ID
KubectlApply(app, svc, tenantId) ==
    [app EXCEPT ![tenantId][svc] = TenantOverlay(svc, tenantId)]

\* Mutant: the tenant-deploy build builds an image for the tenant and
\* pushes it before it applies.
DeployRunBuildsImage(k, ok) ==
    LET d == deploys[k] IN
    /\ d.status = "IN_PROGRESS"
    /\ ok => NamespaceFlagHasValue(d.TENANT_ID) /\ NamespaceExists(d.TENANT_ID)
    /\ deploys' = [deploys EXCEPT ![k].status =
                        IF ok THEN "SUCCEEDED" ELSE "FAILED"]
    /\ applied' = IF ok THEN KubectlApply(applied, d.service, d.TENANT_ID)
                  ELSE applied
    /\ images' = images \cup { <<d.service, "tenant">> }
    /\ reply' = NoReply
    /\ UNCHANGED << registry, stacks, onboardings, deletions, commits >>

\* install and build phase of a <Service>TenantDeploy build; every command
\* before kubectl apply only writes files of the build's own checkout.
\* apply fails when the namespace does not exist.
DeployRun(k, ok) ==
    LET d == deploys[k] IN
    /\ d.status = "IN_PROGRESS"
    /\ ok => NamespaceFlagHasValue(d.TENANT_ID) /\ NamespaceExists(d.TENANT_ID)
    /\ deploys' = [deploys EXCEPT ![k].status =
                        IF ok THEN "SUCCEEDED" ELSE "FAILED"]
    /\ applied' = IF ok THEN KubectlApply(applied, d.service, d.TENANT_ID)
                  ELSE applied
    /\ reply' = NoReply
    /\ UNCHANGED << registry, stacks, onboardings, deletions, commits, images >>

\* ------------------------------------------- the service's own build
\* kubectl get ns -l saas/tenant=true: the namespaces of the tenant stacks.
TenantNamespaces == { t \in TenantIds \ {<<>>} : stacks[t].exists }

\* What the loop body renders for namespace res: the tenant overlay with
\* newTag: $IMAGE_TAG instead of latest.
OnCommitOverlay(svc, res, imageTag) ==
    [TenantOverlay(svc, res) EXCEPT !.image = <<svc, imageTag>>]

\* docker push $ECR_REPO_URI:latest, docker push $ECR_REPO_URI:$IMAGE_TAG
DockerPush(svc, imageTag) == { <<svc, "latest">>, <<svc, imageTag>> }

\* A build of the service's project on a commit: the image is built and
\* pushed, then post_build applies the overlay in every tenant namespace.
\* The loop is one shell command that goes on after an iteration failed;
\* applied_ok is the set of namespaces whose kubectl apply succeeded (none
\* when the build ended before post_build).
OnCommitRedeploy(svc, imageTag, applied_ok) ==
    /\ applied_ok \subseteq TenantNamespaces
    /\ applied' = [ns \in Namespaces |->
                    IF ns \in applied_ok
                    THEN [applied[ns] EXCEPT ![svc] =
                            OnCommitOverlay(svc, ns, imageTag)]
                    ELSE applied[ns]]
    /\ images' = images \cup DockerPush(svc, imageTag)
    /\ reply' = NoReply
    /\ UNCHANGED << registry, stacks, onboardings, deploys, deletions, commits >>

\* -------------------------------- the service's own build, step by step
\* kubernetes/path-patch.yaml and kubernetes/svc-acc-patch.yaml of the
\* build's checkout; the repository holds the templates only.
NoPatchFiles == [present |-> FALSE, path |-> <<>>, serviceAccount |-> <<>>]

\* Mutant: a patch file left over by a failed iteration is kept.
WritePatchFilesKeepsLeftOver(left, svc, res) ==
    IF left.present THEN left
    ELSE [present |-> TRUE, path |-> TenantPath(res, svc),
          serviceAccount |-> res \o <<"-service-account">>]

\* cp <template> <patch> && echo "  value: ..." >> <patch>, for both patch
\* files: cp overwrites what an earlier iteration left.
WritePatchFiles(left, svc, res) ==
    [present |-> TRUE, path |-> TenantPath(res, svc),
     serviceAccount |-> res \o <<"-service-account">>]

\* What kustomize renders in the loop from the patch files and
\* newTag: $IMAGE_TAG.
LoopOverlay(svc, files, imageTag) ==
    [role |-> "minion", host |-> ApiHost, path |-> files.path,
     backend |-> BackendService(svc), port |-> 80,
     serviceAccount |-> files.serviceAccount, image |-> <<svc, imageTag>>]

\* A build of a service's own project for commit imageTag.  listed is the
\* output of kubectl get ns once the loop has started, pos the iteration
\* the loop is at; attempted and applied are the namespaces the loop ran
\* kubectl apply for and those in which it succeeded.
CommitBuild(svc, imageTag) ==
    [service |-> svc, IMAGE_TAG |-> imageTag, phase |-> "INSTALL",
     failedPhases |-> {}, listed |-> <<>>, pos |-> 0, files |-> NoPatchFiles,
     attempted |-> {}, applied |-> {}]

\* The orders in which kubectl get ns can print the namespaces of set S.
Orderings(S) ==
    { f \in [1..Cardinality(S) -> S] : \A i, j \in DOMAIN f : f[i] = f[j] => i = j }

\* The pushes of the build phase that were reached and succeeded: none,
\* latest only, or latest and $IMAGE_TAG.
DockerPushed(svc, imageTag, pushes) ==
    IF pushes = 0 THEN {}
    ELSE IF pushes = 1 THEN { <<svc, "latest">> }
    ELSE DockerPush(svc, imageTag)

\* A commit to the service's repository starts a build of its project.
CommitStart(svc, imageTag) ==
    /\ Len(commits) < MaxCommits
    /\ commits' = Append(commits, CommitBuild(svc, imageTag))
    /\ reply' = NoReply
    /\ UNCHANGED << registry, stacks, applied, onboardings, deploys, deletions,
                    images >>

\* install and pre_build: tools and the docker logins.
CommitInstall(c, ok) ==
    LET b == commits[c] IN
    /\ b.phase = "INSTALL"
    /\ commits' = [commits EXCEPT ![c] = AfterPhase(b, ok)]
    /\ reply' = NoReply
    /\ UNCHANGED << registry, stacks, applied, onboardings, deploys, deletions,
                    images >>

\* build: docker build, tag and the two pushes; the phase stops at the
\* first command that fails.
CommitBuildPhase(c, pushes) ==
    LET b == commits[c] IN
    /\ b.phase = "BUILD"
    /\ commits' = [commits EXCEPT ![c] = AfterPhase(b, pushes = 2)]
    /\ images' = images \cup DockerPushed(b.service, b.IMAGE_TAG, pushes)
    /\ reply' = NoReply
    /\ UNCHANGED << registry, stacks, applied, onboardings, deploys, deletions >>

\* post_build up to the start of the loop: update-kubeconfig and the echo
\* commands, then the loop command lists the tenant namespaces.  A failing
\* kubectl get prints nothing, and the loop has nothing to do.
CommitList(c, ok, order) ==
    LET b == commits[c] IN
    /\ b.phase = "POST_BUILD"
    /\ b.pos = 0
    /\ order \in Orderings(TenantNamespaces) \cup { <<>> }
    /\ commits' = [commits EXCEPT ![c] =
            IF ok /\ order # <<>>
            THEN [b EXCEPT !.listed = order, !.pos = 1]
            ELSE AfterPhase(b, ok)]
    /\ reply' = NoReply
    /\ UNCHANGED << registry, stacks, applied, onboardings, deploys, deletions,
                    images >>

\* Mutant: the loop ends at the first iteration that fails.
AfterIterationBreaks(b, res, success) ==
    LET nb == [b EXCEPT !.attempted = @ \cup {res},
                        !.applied = IF success THEN @ \cup {res} ELSE @,
                        !.pos = @ + 1] IN
    IF b.pos = Len(b.listed) \/ ~success THEN AfterPhase(nb, success) ELSE nb

\* The build after the iteration for res: the loop goes on with the next
\* namespace whether or not the iteration succeeded; the status of the
\* loop command is that of its last iteration.
AfterIteration(b, res, success) ==
    LET nb == [b EXCEPT !.attempted = @ \cup {res},
                        !.applied = IF success THEN @ \cup {res} ELSE @,
                        !.pos = @ + 1] IN
    IF b.pos = Len(b.listed) THEN AfterPhase(nb, success) ELSE nb

\* One iteration of the loop: write the patch files for $res, kubectl apply
\* -k kubernetes/ -n $res, and remove the patch files if it succeeded.
\* apply fails when the namespace does not exist (any more).
CommitIteration(c, ok) ==
    LET b == commits[c]
        res == b.listed[b.pos]
        files == WritePatchFiles(b.files, b.service, res)
        success == ok /\ NamespaceExists(res) IN
    /\ b.phase = "POST_BUILD"
    /\ b.pos \in DOMAIN b.listed
    /\ applied' = IF success
                  THEN [applied EXCEPT ![res][b.service] =
                            LoopOverlay(b.service, files, b.IMAGE_TAG)]
                  ELSE applied
    /\ commits' = [commits EXCEPT ![c] =
            [AfterIteration(b, res, success) EXCEPT
                !.files = IF success THEN NoPatchFiles ELSE files]]
    /\ reply' = NoReply
    /\ UNCHANGED << registry, stacks, onboardings, deploys, deletions, images >>

\* ------------------------------------------------------ deprovisioning
DeletionBuild(via, tenantId) ==
    [via |-> via, TENANT_ID |-> tenantId, phase |-> "INSTALL",
     failedPhases |-> {}]

\* Deprovision of a tenant id without a record.
DeprovisionNotFound(tenantId) ==
    /\ registry[tenantId].status = "None"
    /\ reply' = Answer("Deprovision", tenantId, <<>>, "NotFound")
    /\ UNCHANGED << registry, stacks, applied, onboardings, deploys, deletions,
                    commits, images >>

\* Deprovision of a tenant that is already Deleted.
DeprovisionInvalidState(tenantId) ==
    /\ registry[tenantId].status = "Deleted"
    /\ reply' = Answer("Deprovision", tenantId, <<>>, "InvalidState")
    /\ UNCHANGED << registry, stacks, applied, onboardings, deploys, deletions,
                    commits, images >>

\* Mutant: Deprovision is accepted whatever the record says.
DeprovisionAcceptAnyState(tenantId) ==
    /\ Len(deletions) < MaxDeletions
    /\ registry' = [registry EXCEPT ![tenantId].status = "Deprovisioning"]
    /\ deletions' = Append(deletions, DeletionBuild("request", tenantId))
    /\ reply' = Answer("Deprovision", tenantId, <<>>, "Accepted")
    /\ UNCHANGED << stacks, applied, onboardings, deploys, commits, images >>

\* Deprovision that is accepted: marks the record and starts the deletion
\* build with TENANT_ID overridden.
DeprovisionAccept(tenantId) ==
    /\ Len(deletions) < MaxDeletions
    /\ registry[tenantId].status \notin {"None", "Deleted"}
    /\ registry' = [registry EXCEPT ![tenantId].status = "Deprovisioning"]
    /\ deletions' = Append(deletions, DeletionBuild("request", tenantId))
    /\ reply' = Answer("Deprovision", tenantId, <<>>, "Accepted")
    /\ UNCHANGED << stacks, applied, onboardings, deploys, commits, images >>

\* The registry after deletion build b took a step.
RecordDeletion(reg, b) ==
    IF b.phase = "COMPLETED" /\ b.via = "request"
    THEN [reg EXCEPT ![b.TENANT_ID].status =
            IF b.failedPhases = {} THEN "Deleted" ELSE "Failed"]
    ELSE reg

\* Mutant: the destroy does not remove the tenant's stack.
CdkDestroyKeepsStack(stk, tenantId) == stk

\* cdk destroy TenantStack-$TENANT_ID -f
CdkDestroy(stk, tenantId) == [stk EXCEPT ![tenantId] = NoStack]

\* The tenant's namespace goes with its stack, and with the namespace every
\* fragment applied into it.
RemoveRoutes(app, tenantId) ==
    IF tenantId \in Namespaces
    THEN [app EXCEPT ![tenantId] = [svc \in Services |-> NoOverlay]]
    ELSE app

\* Mutant: the deletion build has a post_build that starts a tenant deploy.
DelRunStartsTenantDeploy(j, ok) ==
    LET b == deletions[j]
        nb == [b EXCEPT !.phase = "COMPLETED",
                        !.failedPhases = IF ok THEN {} ELSE {"BUILD"}] IN
    /\ b.phase = "INSTALL"
    /\ deletions' = [deletions EXCEPT ![j] = nb]
    /\ stacks' = IF ok THEN CdkDestroy(stacks, b.TENANT_ID) ELSE stacks
    /\ applied' = IF ok THEN RemoveRoutes(applied, b.TENANT_ID) ELSE applied
    /\ registry' = RecordDeletion(registry, nb)
    /\ reply' = NoReply
    /\ deploys' = [deploys EXCEPT ![<<1, 1>>] =
                    StartTenantDeploy([service |-> ApplicationServices[1],
                                       overrides |-> [TENANT_ID |-> b.TENANT_ID]])]
    /\ UNCHANGED << onboardings, commits, images >>

\* install and build phase of a deletion build: npm i, cdk bootstrap, then
\* cdk destroy; post_build has no commands.  Until cdk destroy runs, the
\* build only writes files of its own checkout.
DelRun(j, ok) ==
    LET b == deletions[j]
        nb == [b EXCEPT !.phase = "COMPLETED",
                        !.failedPhases = IF ok THEN {} ELSE {"BUILD"}] IN
    /\ b.phase = "INSTALL"
    /\ deletions' = [deletions EXCEPT ![j] = nb]
    /\ stacks' = IF ok THEN CdkDestroy(stacks, b.TENANT_ID) ELSE stacks
    /\ applied' = IF ok THEN RemoveRoutes(applied, b.TENANT_ID) ELSE applied
    /\ registry' = RecordDeletion(registry, nb)
    /\ reply' = NoReply
    /\ UNCHANGED << onboardings, deploys, commits, images >>

\* ------------------------------------------------------- specification
\* The tenant ids Deprovision is requested for: those of the company names
\* of the run.
DeprovisionInputs == { slug(n) : n \in CompanyNames } \ { <<>> }

Next ==
    \/ \E in \in OnboardInputs : OnboardInvalid(in[1], in[2], in[3])
    \/ \E in \in OnboardInputs : OnboardConflict(in[1], in[2], in[3])
    \/ \E in \in OnboardInputs : OnboardAccept(in[1], in[2], in[3])
    \/ StartOnboardingDefault
    \/ \E i \in DOMAIN onboardings, ok \in BOOLEAN : OnbInstall(i, ok)
    \/ \E i \in DOMAIN onboardings, ok \in BOOLEAN : OnbBuild(i, ok)
    \/ \E i \in DOMAIN onboardings, ok \in BOOLEAN : OnbPostBuild(i, ok)
    \/ \E k \in DeployKeys, ok \in BOOLEAN : DeployRun(k, ok)
    \/ \E t \in DeprovisionInputs : DeprovisionNotFound(t)
    \/ \E t \in DeprovisionInputs : DeprovisionInvalidState(t)
    \/ \E t \in DeprovisionInputs : DeprovisionAccept(t)
    \/ \E j \in DOMAIN deletions, ok \in BOOLEAN : DelRun(j, ok)

Spec == Init /\ [][Next]_vars

\* The tenant lifecycle together with the services' own builds: accepted
\* registrations of two companies, builds started on the projects directly,
\* commits to the service repositories, and deprovisioning.
RedeployInputs ==
    { << <<"A">>, GoodEmail, "pooled" >>, << <<"a", "b">>, GoodEmail, "pooled" >> }

NextRedeploy ==
    \/ \E in \in RedeployInputs : OnboardAccept(in[1], in[2], in[3])
    \/ StartOnboardingDefault
    \/ \E i \in DOMAIN onboardings, ok \in BOOLEAN : OnbInstall(i, ok)
    \/ \E i \in DOMAIN onboardings, ok \in BOOLEAN : OnbBuild(i, ok)
    \/ \E i \in DOMAIN onboardings, ok \in BOOLEAN : OnbPostBuild(i, ok)
    \/ \E k \in DeployKeys, ok \in BOOLEAN : DeployRun(k, ok)
    \/ \E svc \in Services, imageTag \in ImageTags :
            \E applied_ok \in SUBSET TenantNamespaces :
                OnCommitRedeploy(svc, imageTag, applied_ok)
    \/ \E t \in TenantIds \ {<<>>} : DeprovisionAccept(t)
    \/ \E j \in DOMAIN deletions, ok \in BOOLEAN : DelRun(j, ok)

RedeploySpec == Init /\ [][NextRedeploy]_vars

\* CodeBuild runs every build it has started through its phases until the
\* build is COMPLETED: a step of a started build that stays possible is
\* eventually taken.
StepOnboarding(i) ==
    /\ i \in DOMAIN onboardings
    /\ \E ok \in BOOLEAN : OnbInstall(i, ok) \/ OnbBuild(i, ok) \/ OnbPostBuild(i, ok)

StepDeletion(j) ==
    /\ j \in DOMAIN deletions
    /\ \E ok \in BOOLEAN : DelRun(j, ok)

\* The invocations that are accepted and the builds they start.
NextLifecycle ==
    \/ \E in \in RedeployInputs : OnboardAccept(in[1], in[2], in[3])
    \/ \E i \in DOMAIN onboardings, ok \in BOOLEAN : OnbInstall(i, ok)
    \/ \E i \in DOMAIN onboardings, ok \in BOOLEAN : OnbBuild(i, ok)
    \/ \E i \in DOMAIN onboardings, ok \in BOOLEAN : OnbPostBuild(i, ok)
    \/ \E k \in DeployKeys, ok \in BOOLEAN : DeployRun(k, ok)
    \/ \E t \in TenantIds \ {<<>>} : DeprovisionAccept(t)
    \/ \E j \in DOMAIN deletions, ok \in BOOLEAN : DelRun(j, ok)

LiveSpec ==
    /\ Init /\ [][NextLifecycle]_vars
    /\ \A i \in 1..MaxOnboardings : WF_vars(StepOnboarding(i))
    /\ \A j \in 1..MaxDeletions : WF_vars(StepDeletion(j))

\* The lifecycle of tenants next to a build of a service's own project.
\* The stages of the onboarding build succeed here; tenant-deploy builds,
\* the deletion build and the service's build may fail at every step.
NextCommit ==
    \/ \E in \in RedeployInputs : OnboardAccept(in[1], in[2], in[3])
    \/ \E i \in DOMAIN onboardings : OnbInstall(i, TRUE)
    \/ \E i \in DOMAIN onboardings : OnbBuild(i, TRUE)
    \/ \E i \in DOMAIN onboardings : OnbPostBuild(i, TRUE)
    \/ \E k \in DeployKeys, ok \in BOOLEAN : DeployRun(k, ok)
    \/ \E t \in TenantIds \ {<<>>} : DeprovisionAccept(t)
    \/ \E j \in DOMAIN deletions, ok \in BOOLEAN : DelRun(j, ok)
    \/ \E imageTag \in ImageTags : CommitStart(ApplicationServices[1], imageTag)
    \/ \E c \in DOMAIN commits, ok \in BOOLEAN : CommitInstall(c, ok)
    \/ \E c \in DOMAIN commits, pushes \in 0..2 : CommitBuildPhase(c, pushes)
    \/ \E c \in DOMAIN commits, ok \in BOOLEAN :
            \E order \in Orderings(TenantNamespaces) \cup { <<>> } :
                CommitList(c, ok, order)
    \/ \E c \in DOMAIN commits, ok \in BOOLEAN : CommitIteration(c, ok)

CommitSpec == Init /\ [][NextCommit]_vars

\* ------------------------------------- tenants named like shared routes
\* The routes of the shared services on the API host, all pathType Prefix:
\* /register and /amIUp (tenant registration), /users (user management),
\* /auth-info and /tenants (tenant management).
SharedRoutes ==
    { <<"/", "r", "e", "g", "i", "s", "t", "e", "r">>,
      <<"/", "a", "m", "I", "U", "p">>,
      <<"/", "u", "s", "e", "r", "s">>,
      <<"/", "a", "u", "t", "h", "-", "i", "n", "f", "o">>,
      <<"/", "t", "e", "n", "a", "n", "t", "s">> }

SharedNameInputs ==
    { <<c, GoodEmail, "pooled">> : c \in ReservedNames \cup { <<"A">> } }

NextSharedName ==
    \/ \E in \in SharedNameInputs : OnboardAccept(in[1], in[2], in[3])
    \/ \E i \in DOMAIN onboardings, ok \in BOOLEAN : OnbInstall(i, ok)
    \/ \E i \in DOMAIN onboardings, ok \in BOOLEAN : OnbBuild(i, ok)
    \/ \E i \in DOMAIN onboardings, ok \in BOOLEAN : OnbPostBuild(i, ok)
    \/ \E k \in DeployKeys, ok \in BOOLEAN : DeployRun(k, ok)

SharedNameSpec == Init /\ [][NextSharedName]_vars

\* ------------------------------------------------ the registration form
\* Characters typed into the company name field: a lower-case and an
\* upper-case letter, a digit, the underscore, punctuation and a blank.
FormChars == {"a", "A", "1", "_", "!", " "}

\* The values of the company name field.
FormNames == UNION { [1..n -> FormChars] : n \in 0..MaxNameLen }

\* Validators.required on companyName: the value is not empty.
ValidatorsRequired(value) == value # <<>>

\* getTenantUrl() with companyName in the form: the tenant id it derives
\* and whether the field passes its validator.
GetTenantUrl(companyName) ==
    /\ reply' = Answer("getTenantUrl", slug(companyName), companyName,
                       IF ValidatorsRequired(companyName) THEN "valid"
                       ELSE "required")
    /\ UNCHANGED << registry, stacks, applied, onboardings, deploys, deletions,
                    commits, images >>

NextForm == \E companyName \in FormNames : GetTenantUrl(companyName)

FormSpec == Init /\ [][NextForm]_vars

\* ------------------------------------------------ the onboarding trigger
\* StartBuild of TenantOnboardingProject that overrides COMPANY_NAME,
\* ADMIN_EMAIL and PLAN and leaves TENANT_ID at its default "".
StartOnboardingWithoutTenantId(companyName, adminEmail, plan) ==
    /\ Len(onboardings) < MaxOnboardings
    /\ onboardings' = Append(onboardings,
            OnboardingBuild("direct", <<>>, companyName, adminEmail, plan))
    /\ reply' = Answer("StartBuild", <<>>, companyName, "Started")
    /\ UNCHANGED << registry, stacks, applied, deploys, deletions,
                    commits, images >>

NextTrigger ==
    \/ \E in \in RedeployInputs : StartOnboardingWithoutTenantId(in[1], in[2], in[3])
    \/ \E i \in DOMAIN onboardings, ok \in BOOLEAN : OnbInstall(i, ok)
    \/ \E i \in DOMAIN onboardings, ok \in BOOLEAN : OnbBuild(i, ok)
    \/ \E i \in DOMAIN onboardings, ok \in BOOLEAN : OnbPostBuild(i, ok)
    \/ \E k \in DeployKeys, ok \in BOOLEAN : DeployRun(k, ok)

TriggerSpec == Init /\ [][NextTrigger]_vars

\* ---------------------------------------------------------------- views
\* Onboarding builds that came through the gate for tenant t and have not
\* reached their terminal state.
InFlight(t) ==
    { i \in DOMAIN onboardings :
        /\ onboardings[i].via = "request"
        /\ onboardings[i].TENANT_ID = t
        /\ onboardings[i].phase # "COMPLETED" }

\* Deprovisioning has been requested for tenant t.
DeprovisionRequested(t) ==
    \E j \in DOMAIN deletions : deletions[j].TENANT_ID = t

\* Tenant t has been removed by a deletion build.
Removed(t) ==
    \E j \in DOMAIN deletions :
        /\ deletions[j].TENANT_ID = t
        /\ deletions[j].phase = "COMPLETED"
        /\ deletions[j].failedPhases = {}

\* The tenant-deploy builds that onboarding build i started.
StartedBy(i) ==
    { k \in 1..Len(ApplicationServices) : deploys[<<i, k>>].status # "NOT_STARTED" }

\* The start-build commands onboarding build b has run so far, by position.
AttemptedStarts(b) ==
    IF b.phase \in {"INSTALL", "BUILD"} \/ "INSTALL" \in b.failedPhases THEN {}
    ELSE IF b.phase = "POST_BUILD" THEN 1..(b.cmd - 1)
    ELSE 1..b.cmd

\* What a finished onboarding build reports per service: its start-build
\* command exited 0 or it did not.
AggregateResult(i) ==
    [svc \in Services |->
        IF \E k \in StartedBy(i) : deploys[<<i, k>>].service = svc
        THEN "Deployed" ELSE "Failed"]

\* The tenant deploy of svc on behalf of onboarding build i failed: it was
\* never started, or its build ended FAILED.
DeployFailed(i, svc) ==
    \/ ~\E k \in StartedBy(i) : deploys[<<i, k>>].service = svc
    \/ \E k \in StartedBy(i) :
            /\ deploys[<<i, k>>].service = svc
            /\ deploys[<<i, k>>].status = "FAILED"

PhaseRank(phase) ==
    CASE phase = "INSTALL" -> 1 [] phase = "BUILD" -> 2
      [] phase = "POST_BUILD" -> 3 [] OTHER -> 4

\* The route rules (paths) that exist in namespace ns.
RouteRules(ns) ==
    { applied[ns][svc].path : svc \in { s \in Services : applied[ns][s].role # "absent" } }

\* The routing part of an applied overlay.
Fragment(o) ==
    [role |-> o.role, host |-> o.host, path |-> o.path, backend |-> o.backend,
     port |-> o.port]

\* The route fragments that exist in namespace ns.
Fragments(ns) ==
    { Fragment(applied[ns][svc]) :
        svc \in { s \in Services : applied[ns][s].role # "absent" } }

\* Tenant-deploy build k succeeds in this step.
DeploySucceeds(k) ==
    deploys[k].status = "IN_PROGRESS" /\ deploys'[k].status = "SUCCEEDED"

\* An earlier tenant-deploy build of the same service and tenant id as
\* build k has succeeded.
AlreadyDeployed(k) ==
    \E k0 \in DeployKeys \ {k} :
        /\ deploys[k0].status = "SUCCEEDED"
        /\ deploys[k0].service = deploys[k].service
        /\ deploys[k0].TENANT_ID = deploys[k].TENANT_ID

\* Deletion builds requested for tenant t that have not ended.
DeletionsInFlight(t) ==
    { j \in DOMAIN deletions :
        /\ deletions[j].via = "request"
        /\ deletions[j].TENANT_ID = t
        /\ deletions[j].phase # "COMPLETED" }

\* The status graph of the Tenant record; None is "no record".
StatusTransitions ==
    { <<"None", "Provisioning">>, <<"Provisioning", "Active">>,
      <<"Active", "Deprovisioning">>, <<"Deprovisioning", "Deleted">>,
      <<"Provisioning", "Failed">>, <<"Deprovisioning", "Failed">>,
      <<"Failed", "Provisioning">>, <<"Failed", "Deprovisioning">> }

\* --------------------------------------------------------------- claims

C2_CollidingNameRejected ==
    [][\A t \in TenantIds :
        ( /\ reply'.op = "Onboard"
          /\ reply'.result # "ValidationError"
          /\ reply'.tenantId = t
          /\ slug(reply'.companyName) = t
          /\ registry[t].status \notin {"None", "Failed"}
          /\ registry[t].companyName # reply'.companyName )
        => /\ reply'.result = "ResourceConflict"
           /\ UNCHANGED << registry, stacks, applied >>
    ]_vars

\* C2 witness: a second company name for an Active tenant with a deployed
\* stack was just rejected.
C2_Witness ==
    /\ reply.op = "Onboard"
    /\ reply.result = "ResourceConflict"
    /\ registry[reply.tenantId].status = "Active"
    /\ registry[reply.tenantId].companyName # reply.companyName
    /\ stacks[reply.tenantId].exists
    /\ stacks[reply.tenantId].CompanyName = registry[reply.tenantId].companyName

\* C3 (as claimed): an onboarding build whose values do not pass validation
\* leaves no tenant stack behind and starts no tenant-deploy build.
C3_InvalidOnboardMutatesNothing ==
    \A i \in DOMAIN onboardings :
        LET b == onboardings[i] IN
        ~ValidOnboard(b.COMPANY_NAME, b.ADMIN_EMAIL, b.PLAN)
            => /\ StartedBy(i) = {}
               /\ ~stacks[b.TENANT_ID].exists

\* C4 (as claimed): an onboarding build whose build phase failed starts no
\* tenant-deploy build.
C4_FailedBuildStartsNoDeploy ==
    \A i \in DOMAIN onboardings :
        "BUILD" \in onboardings[i].failedPhases => StartedBy(i) = {}

\* C5: an onboarding build that ended SUCCEEDED for tenant t started the
\* tenant-deploy build of every application service exactly once, each with
\* TENANT_ID = t as its only override; and once both of them succeeded, and
\* t was not removed, the route rules in t's namespace are exactly
\* /t/products and /t/orders.
C5_FanOutOncePerService ==
    \A i \in DOMAIN onboardings :
        LET b == onboardings[i]
            t == b.TENANT_ID IN
        (b.phase = "COMPLETED" /\ BuildStatus(b) = "SUCCEEDED")
        => /\ \A svc \in Services :
                Cardinality({ k \in StartedBy(i) :
                                deploys[<<i, k>>].service = svc }) = 1
           /\ \A k \in StartedBy(i) :
                /\ deploys[<<i, k>>].TENANT_ID = t
                /\ deploys[<<i, k>>].overridden = {"TENANT_ID"}
           /\ ( /\ \A k \in StartedBy(i) : deploys[<<i, k>>].status = "SUCCEEDED"
                /\ ~Removed(t) )
              => RouteRules(t)
                    = { << t, <<"products">> >>, << t, <<"orders">> >> }

\* C5 witness: a succeeded onboarding whose two tenant-deploy builds have
\* succeeded as well.
C5_Witness ==
    \E i \in DOMAIN onboardings :
        /\ onboardings[i].phase = "COMPLETED"
        /\ BuildStatus(onboardings[i]) = "SUCCEEDED"
        /\ \A k \in 1..Len(ApplicationServices) :
                deploys[<<i, k>>].status = "SUCCEEDED"
        /\ Cardinality(RouteRules(onboardings[i].TENANT_ID)) = 2

\* C6 (as claimed): when the start of one service's tenant deploy failed,
\* the start of every other service's tenant deploy was still attempted.
C6_FailedStartDoesNotBlockOthers ==
    \A i \in DOMAIN onboardings :
        LET b == onboardings[i] IN
        b.phase = "COMPLETED"
        => \A k1 \in AttemptedStarts(b) :
                deploys[<<i, k1>>].status = "NOT_STARTED"
                => \A k2 \in 1..Len(ApplicationServices) :
                        k2 \in AttemptedStarts(b)

\* C7 (as claimed): an onboarding build that has reached its terminal state
\* has no tenant-deploy build of its own still in progress.
C7_TerminalOnlyAfterDeploys ==
    \A i \in DOMAIN onboardings :
        onboardings[i].phase = "COMPLETED"
        => \A k \in StartedBy(i) : deploys[<<i, k>>].status # "IN_PROGRESS"

\* C8 (as claimed): for a finished onboarding build whose provisioning
\* succeeded, the services its result reports as failed are exactly the
\* services whose tenant deploy failed.
C8_ResultNamesFailedServices ==
    \A i \in DOMAIN onboardings :
        LET b == onboardings[i] IN
        (b.phase = "COMPLETED" /\ b.failedPhases \cap {"INSTALL", "BUILD"} = {})
        => \A svc \in Services :
                AggregateResult(i)[svc] = "Failed" <=> DeployFailed(i, svc)

\* C9 (as claimed): a retried onboarding build of a tenant resumes at the
\* stage at which the tenant's earlier build failed: it is never at an
\* earlier phase or an earlier start-build command.
C9_RetryResumesAtFailedStage ==
    \A e \in DOMAIN onboardings, r \in DOMAIN onboardings :
        LET eb == onboardings[e]
            rb == onboardings[r] IN
        ( /\ e < r
          /\ eb.via = "request" /\ rb.via = "request"
          /\ eb.TENANT_ID = rb.TENANT_ID
          /\ eb.phase = "COMPLETED"
          /\ eb.failedPhases = {"POST_BUILD"}
          /\ stacks[eb.TENANT_ID].exists )
        => /\ PhaseRank(rb.phase) >= PhaseRank("POST_BUILD")
           /\ rb.cmd >= eb.cmd

\* C10: the overlays of a namespace change only in a step of a tenant-deploy
\* build or a deletion build whose TENANT_ID names that namespace; a
\* tenant-deploy build changes the fragment of its own service only, and a
\* deletion build that succeeds leaves its tenant without any fragment.
C10_OnlyOwnFragmentsTouched ==
    [][ /\ \A ns \in Namespaces :
            applied'[ns] # applied[ns]
            => \/ \E k \in DeployKeys :
                    /\ deploys[k].status = "IN_PROGRESS"
                    /\ deploys'[k].status = "SUCCEEDED"
                    /\ deploys[k].TENANT_ID = ns
                    /\ \A svc \in Services \ {deploys[k].service} :
                            applied'[ns][svc] = applied[ns][svc]
               \/ \E j \in DOMAIN deletions :
                    /\ deletions[j].phase # "COMPLETED"
                    /\ deletions'[j].phase = "COMPLETED"
                    /\ deletions[j].TENANT_ID = ns
        /\ \A j \in DOMAIN deletions :
            ( /\ deletions[j].phase # "COMPLETED"
              /\ deletions'[j].phase = "COMPLETED"
              /\ deletions'[j].failedPhases = {} )
            => \A svc \in Services :
                    applied'[deletions[j].TENANT_ID][svc] = NoOverlay
      ]_vars

\* C10 witness: tenant B was removed after its tenant deploys had succeeded,
\* no fragment of B is left, and another tenant's fragments are in place.
C10_Witness ==
    \E A \in Namespaces, B \in Namespaces \ {DefaultNamespace} :
        /\ A # B
        /\ Removed(B)
        /\ \E k \in DeployKeys :
                deploys[k].TENANT_ID = B /\ deploys[k].status = "SUCCEEDED"
        /\ RouteRules(B) = {}
        /\ Cardinality(RouteRules(A)) = 2

\* C11: in every reachable state the route paths of two different
\* namespaces are different strings and neither is a prefix of the other,
\* so tenants onboarded from different company names (ids "a" and "ab")
\* get distinct, non-overlapping path prefixes for every service.
C11_PrefixesDoNotOverlap ==
    \A A \in Namespaces, B \in Namespaces :
        A # B => \A p \in RouteRules(A), q \in RouteRules(B) :
                    ~IsPrefix(PathString(p), PathString(q))

\* C11 witness: the tenants "a" and "ab", of which one id is a prefix of
\* the other, both have their two route rules in place.
C11_Witness ==
    /\ RouteRules(<<"a">>) = { TenantPath(<<"a">>, svc) : svc \in Services }
    /\ RouteRules(<<"a", "b">>) = { TenantPath(<<"a", "b">>, svc) : svc \in Services }
    /\ registry[<<"a">>].companyName # registry[<<"a", "b">>].companyName

\* C12: a tenant-deploy build that succeeds for a (tenant id, service) whose
\* fragment is already applied leaves the set of route fragments (host,
\* path, backend) of every namespace exactly as it was.
C12_ReapplyKeepsFragments ==
    [][\A k \in DeployKeys :
        ( /\ DeploySucceeds(k)
          /\ applied[deploys[k].TENANT_ID][deploys[k].service].role
                = "minion" )
        => \A ns \in Namespaces : Fragments(ns)' = Fragments(ns)
    ]_vars

\* C12 witness: two tenant-deploy builds of the same service and tenant
\* have both succeeded, and the tenant's namespace holds that service's
\* one fragment.
C12_Witness ==
    \E k1 \in DeployKeys, k2 \in DeployKeys :
        /\ k1 # k2
        /\ deploys[k1].status = "SUCCEEDED" /\ deploys[k2].status = "SUCCEEDED"
        /\ deploys[k1].service = deploys[k2].service
        /\ deploys[k1].TENANT_ID = deploys[k2].TENANT_ID
        /\ deploys[k1].TENANT_ID # <<>>
        /\ Fragment(applied[deploys[k1].TENANT_ID][deploys[k1].service])
                = Fragment(TenantOverlay(deploys[k1].service, deploys[k1].TENANT_ID))

\* C13 (as claimed): a tenant-deploy build that succeeds for a service
\* already deployed in the tenant's namespace leaves that service's overlay
\* (image reference, route, service account) as it was before the build,
\* and leaves the overlay of every other service of the tenant unchanged.
C13_RedeployConverges ==
    [][\A k \in DeployKeys :
        LET t == deploys[k].TENANT_ID
            svc == deploys[k].service IN
        ( /\ DeploySucceeds(k)
          /\ t # <<>>
          /\ AlreadyDeployed(k)
          /\ applied[t][svc].role = "minion" )
        => /\ applied'[t][svc] = applied[t][svc]
           /\ \A other \in Services \ {svc} : applied'[t][other] = applied[t][other]
    ]_vars

\* C14: the master ingress is in every reachable state the one created with
\* the cluster (role master, the API host, no path rule), and every object
\* a step changes is the slot of one service in one namespace, which after
\* the step is absent or holds a minion fragment with the path of one
\* (tenant id, service) pair.
C14_MasterUntouched ==
    /\ [](applied[DefaultNamespace][MasterIngressName] = MasterIngress)
    /\ [][\A ns \in Namespaces : \A o \in DOMAIN applied[ns] :
            applied'[ns][o] # applied[ns][o]
            => /\ o \in Services
               /\ \/ applied'[ns][o] = NoOverlay
                  \/ /\ applied'[ns][o].role = "minion"
                     /\ \E t \in TenantIds : applied'[ns][o].path = TenantPath(t, o)
       ]_vars

\* C14 witness: fragments were applied in a tenant namespace by a tenant
\* deploy and by a service's on-commit build, a tenant was removed, and the
\* master is as created.
C14_Witness ==
    /\ applied[DefaultNamespace][MasterIngressName] = MasterIngress
    /\ \E t \in TenantIds \ {<<>>} : Removed(t)
    /\ \E t \in TenantIds \ {<<>>}, svc \in Services, other \in Services,
          tag \in ImageTags :
            /\ applied[t][svc].role = "minion"
            /\ applied[t][svc].image = <<svc, tag>>
            /\ applied[t][other].role = "minion"
            /\ applied[t][other].image = <<other, "latest">>

\* C15: a tenant whose record is Deleted and that has no onboarding build in
\* flight is back where it was before it was onboarded: no tenant stack (and
\* so no tenant-scoped table), no overlay and no route fragment in its
\* namespace; and the step in which a deletion build ends changes no
\* record, stack or overlay of any other tenant id or namespace.
C15_RoundTrip ==
    /\ [](\A t \in TenantIds \ {<<>>} :
            (registry[t].status = "Deleted" /\ InFlight(t) = {})
            => /\ stacks[t] = NoStack
               /\ applied[t] = ClusterObjects(t)
               /\ Fragments(t) = {})
    /\ [][\A j \in DOMAIN deletions :
            (deletions[j].phase # "COMPLETED" /\ deletions'[j].phase = "COMPLETED")
            => /\ \A u \in TenantIds \ {deletions[j].TENANT_ID} :
                    registry'[u] = registry[u] /\ stacks'[u] = stacks[u]
               /\ \A ns \in Namespaces \ {deletions[j].TENANT_ID} :
                    applied'[ns] = applied[ns]
       ]_vars

\* C15 witness: a tenant that was onboarded, whose services were deployed,
\* is Deleted, while another tenant's stack and two fragments are in place.
C15_Witness ==
    \E t \in TenantIds \ {<<>>}, u \in TenantIds \ {<<>>} :
        /\ t # u
        /\ registry[t].status = "Deleted"
        /\ \E i \in DOMAIN onboardings :
                /\ onboardings[i].TENANT_ID = t
                /\ onboardings[i].phase = "COMPLETED"
                /\ BuildStatus(onboardings[i]) = "SUCCEEDED"
                /\ \A k \in StartedBy(i) : deploys[<<i, k>>].status = "SUCCEEDED"
        /\ stacks[u].exists
        /\ Cardinality(Fragments(u)) = 2

\* C16: a Deprovision of a tenant id without a record is answered NotFound,
\* a Deprovision of a tenant whose record is Deleted is answered
\* InvalidState, and in both cases the step starts no deletion build and
\* changes no record, stack or overlay.
C16_DeprovisionRejected ==
    [][\A t \in TenantIds :
        (reply'.op = "Deprovision" /\ reply'.tenantId = t
            /\ registry[t].status \in {"None", "Deleted"})
        => /\ reply'.result =
                (IF registry[t].status = "None" THEN "NotFound" ELSE "InvalidState")
           /\ UNCHANGED << registry, stacks, applied, deletions, deploys >>
    ]_vars

\* C16 witness: after a deletion build removed the tenant, a second
\* Deprovision of it was just answered InvalidState.
C16_Witness ==
    /\ reply.op = "Deprovision"
    /\ reply.result = "InvalidState"
    /\ Removed(reply.tenantId)
    /\ registry[reply.tenantId].status = "Deleted"

\* C17: no step of a deprovisioning, from the request that starts the
\* deletion build to the step that ends it, starts or changes a
\* tenant-deploy build of any service for any tenant.
C17_DeprovisionStartsNoDeploy ==
    [][ (deletions' # deletions \/ reply'.op = "Deprovision")
        => deploys' = deploys ]_vars

\* C17 witness: a deletion build has removed a tenant whose two tenant
\* deploys were started by its onboarding build, and no other tenant-deploy
\* build carries that tenant id.
C17_Witness ==
    \E j \in DOMAIN deletions, i \in DOMAIN onboardings :
        /\ deletions[j].phase = "COMPLETED"
        /\ deletions[j].failedPhases = {}
        /\ onboardings[i].TENANT_ID = deletions[j].TENANT_ID
        /\ StartedBy(i) = 1..Len(ApplicationServices)
        /\ \A k \in DeployKeys :
                (deploys[k].status # "NOT_STARTED"
                    /\ deploys[k].TENANT_ID = deletions[j].TENANT_ID)
                => k[1] = i

CdkToolkitStack == <<"CDKToolkit">>

\* TenantStack-$TENANT_ID
TenantStackName(tenantId) == <<"TenantStack-">> \o tenantId

\* The CloudFormation stacks the build phase of a build deploys to or
\* destroys: cdk bootstrap, then cdk deploy / cdk destroy of the tenant
\* stack.
BuildPhaseStacks(b) == { CdkToolkitStack, TenantStackName(b.TENANT_ID) }

\* The stacks onboarding build i has written so far: those of its build
\* phase, once that phase has run.
OnboardingWrites(i) ==
    LET b == onboardings[i] IN
    IF b.phase \in {"POST_BUILD", "COMPLETED"} /\ "INSTALL" \notin b.failedPhases
    THEN BuildPhaseStacks(b) ELSE {}

\* The stacks deletion build j has written so far.
DeletionWrites(j) ==
    LET b == deletions[j] IN
    IF b.phase = "COMPLETED" THEN BuildPhaseStacks(b) ELSE {}

\* The builds of Onboard and Deprovision invocations, each with the tenant
\* it was requested for and the stacks it has written.
InvocationWrites ==
    { [tenant |-> onboardings[i].TENANT_ID, writes |-> OnboardingWrites(i)] :
        i \in { n \in DOMAIN onboardings : onboardings[n].via = "request" } }
    \cup
    { [tenant |-> deletions[j].TENANT_ID, writes |-> DeletionWrites(j)] :
        j \in { n \in DOMAIN deletions : deletions[n].via = "request" } }

\* C20: invocations for distinct tenants share no mutable state besides the
\* registry and the routing merge point: no object written by a build of
\* one tenant's Onboard or Deprovision invocation is also written by a
\* build of another tenant's invocation.
C20_NoSharedWrites ==
    \A x, y \in InvocationWrites :
        x.tenant # y.tenant => x.writes \cap y.writes = {}


\* C21: slug is idempotent: the tenant id getTenantUrl derives from a
\* company name is slug of that name, and slug of the tenant id is the
\* tenant id again.
C21_SlugIdempotent ==
    reply.op = "getTenantUrl" =>
        /\ reply.tenantId = slug(reply.companyName)
        /\ slug(reply.tenantId) = reply.tenantId

\* C21 witness: a company name from which slug strips characters on both
\* sides of a kept one and lower-cases a letter.
C21_Witness ==
    /\ reply.op = "getTenantUrl"
    /\ reply.companyName = <<"!", "A", " ">>
    /\ reply.tenantId = <<"a">>

\* C22: the tenant id derived from a company name holds only characters
\* in a-z and 0-9 (of the characters of the model: a, b and 1).
C22_OnlyLowerAlnum ==
    reply.op = "getTenantUrl" =>
        \A i \in 1..Len(reply.tenantId) : reply.tenantId[i] \in {"a", "b", "1"}

\* C23: an onboarding build started with an empty TENANT_ID and a
\* COMPANY_NAME works with the tenant id slug(COMPANY_NAME): that id, which
\* is not empty, names the tenant stack of its build phase and is the
\* TENANT_ID of every tenant-deploy build it starts.
C23_TriggerComputesTenantId ==
    \A i \in DOMAIN onboardings :
        LET b == onboardings[i]
            tenantId == slug(b.COMPANY_NAME) IN
        (b.TENANT_ID = <<>> /\ b.COMPANY_NAME # <<>>) =>
            /\ OnboardingWrites(i) # {} => TenantStackName(tenantId) \in OnboardingWrites(i)
            /\ \A k \in StartedBy(i) :
                    /\ deploys[<<i, k>>].TENANT_ID = tenantId
                    /\ deploys[<<i, k>>].TENANT_ID # <<>>

C25_NothingAppearsAfterDeprovision ==
    /\ [](\A t \in TenantIds \ {<<>>} :
            (registry[t].status = "Deleted" /\ InFlight(t) = {})
            => applied[t] = ClusterObjects(t) /\ Fragments(t) = {})
    /\ [][\A t \in TenantIds \ {<<>>} :
            (registry[t].status = "Deleted" /\ InFlight(t) = {})
            => applied'[t] = applied[t]
       ]_vars

\* C25 witness: tenant t is Deleted while a tenant-deploy build for t is
\* still in progress and the on-commit loop, which listed t's namespace,
\* has its iteration for t still to run.
C25_Witness ==
    \E t \in TenantIds \ {<<>>}, k \in DeployKeys, c \in DOMAIN commits :
        /\ registry[t].status = "Deleted"
        /\ InFlight(t) = {}
        /\ deploys[k].TENANT_ID = t
        /\ deploys[k].status = "IN_PROGRESS"
        /\ commits[c].phase = "POST_BUILD"
        /\ commits[c].pos \in DOMAIN commits[c].listed
        /\ commits[c].listed[commits[c].pos] = t

\* C26: no route of a shared service is a path prefix of the route of a
\* fragment applied in a tenant namespace.
C26_NoSharedRouteIsPrefix ==
    \A ns \in Namespaces \ {DefaultNamespace}, svc \in Services :
        applied[ns][svc].role = "minion"
        => \A shared \in SharedRoutes :
                ~IsPrefix(shared, PathString(applied[ns][svc].path))

\* C27: every fragment of an application service that exists in a
\* namespace n has the path /n/<URL prefix of the service> and the service
\* account n-service-account, whether a tenant-deploy build or a service's
\* on-commit loop applied it last.
C27_FragmentMatchesNamespace ==
    \A ns \in Namespaces, svc \in Services :
        applied[ns][svc].role = "minion"
        => /\ applied[ns][svc].path = TenantPath(ns, svc)
           /\ applied[ns][svc].serviceAccount = ns \o <<"-service-account">>

\* C27 witness: the on-commit loop failed in the first namespace it listed,
\* leaving its patch files behind, and then applied in the second one; the
\* other service's fragment there was applied by a tenant deploy.
C27_Witness ==
    \E c \in DOMAIN commits :
        LET b == commits[c] IN
        /\ b.phase = "COMPLETED"
        /\ Len(b.listed) = 2
        /\ b.listed[1] \notin b.applied
        /\ b.listed[2] \in b.applied
        /\ applied[b.listed[2]][b.service].image = <<b.service, b.IMAGE_TAG>>
        /\ \E other \in Services \ {b.service} :
                applied[b.listed[2]][other].image = <<other, "latest">>

\* C28: no tenant-deploy build applies an overlay into namespace default,
\* which holds the master ingress and the shared services: in every
\* reachable state the slot of every application service in namespace
\* default is empty.
C28_NothingAppliedInDefault ==
    \A svc \in Services : applied[DefaultNamespace][svc] = NoOverlay

\* C29: the on-commit loop lists exactly the tenant namespaces that exist
\* at that moment, runs kubectl apply for every listed namespace in turn
\* whether or not an earlier apply failed (a build that listed namespaces
\* ends only after the iteration for the last of them), and every apply
\* that succeeds puts the service's overlay for that namespace, with the
\* image of the commit, into that namespace.
C29_LoopCoversListedNamespaces ==
    /\ [](\A c \in DOMAIN commits :
            LET b == commits[c] IN
            /\ b.attempted = { b.listed[i] : i \in 1..(b.pos - 1) }
            /\ b.applied \subseteq b.attempted
            /\ (b.phase = "COMPLETED" /\ b.listed # <<>>)
               => b.attempted = { b.listed[i] : i \in DOMAIN b.listed })
    /\ [][\A c \in DOMAIN commits :
            /\ (commits[c].listed = <<>> /\ commits'[c].listed # <<>>)
               => commits'[c].listed \in Orderings(TenantNamespaces)
            /\ \A res \in commits'[c].applied \ commits[c].applied :
                    applied'[res][commits[c].service] =
                        OnCommitOverlay(commits[c].service, res, commits[c].IMAGE_TAG)
       ]_vars

\* C29 witness: a finished loop over two namespaces whose apply failed in
\* the first and succeeded in the second; the build counts as succeeded.
C29_Witness ==
    \E c \in DOMAIN commits :
        LET b == commits[c] IN
        /\ b.phase = "COMPLETED"
        /\ b.failedPhases = {}
        /\ Len(b.listed) = 2
        /\ b.attempted = { b.listed[1], b.listed[2] }
        /\ b.applied = { b.listed[2] }

\* C30: a company name that passes the required validator yields a tenant
\* id that is not empty.
C30_ValidNameGivesTenantId ==
    (reply.op = "getTenantUrl" /\ reply.result = "valid") => reply.tenantId # <<>>

====
